---- MODULE Spec2Model ----
(***************************************************************************)
(* Hypertension CDSS backend: the input validator, the clinical rule       *)
(* engine (backend/utils/preprocess.py) and the request handlers           *)
(* (backend/app.py), as a state machine.                                   *)
(*                                                                         *)
(* Numbers.  A JSON / Python number is a record [kind, nan, v]: kind is    *)
(* the Python type ("int", "float", "bool"), v is the value in units of    *)
(* 1/Scale (so 30 is v = 30*Scale and 30.5 is v = 30*Scale + Scale \div 2) *)
(* and nan marks the float NaN, for which every ordering test is false.    *)
(* Values of the other JSON types are "None" (null) and "str".             *)
(*                                                                         *)
(* Strings are the program's, with the en dash of the BP categories        *)
(* written "-" and the sign for "at least" of the risk factors ">=".       *)
(***************************************************************************)
EXTENDS Integers, Sequences, FiniteSets, TLC

VARIABLES model, request, data, args, ret

vars == <<model, request, data, args, ret>>

\* Resolution of the non-integer numbers: a number is k / Scale.
Scale == 10

\* How far below each threshold of a ladder the sampled inputs reach.
Near == 1

\* How far outside the validated systolic/diastolic ranges classify_bp is applied.
Margin == 2

\* How far outside 0..100 the risk score given to calculate_confidence ranges.
Over == 5

-----------------------------------------------------------------------------
(* Python values *)

PyInt(n) == [kind |-> "int", nan |-> FALSE, v |-> n * Scale]

PyFloat(k) == [kind |-> "float", nan |-> FALSE, v |-> k]

NaN == [kind |-> "float", nan |-> TRUE, v |-> 0]

PyNone == [kind |-> "None", nan |-> FALSE, v |-> 0]

PyTrue == [kind |-> "bool", nan |-> FALSE, v |-> Scale]

PyStr == [kind |-> "str", nan |-> FALSE, v |-> 0]

\* isinstance(x, bool)
IsBool(x) == x.kind = "bool"

\* isinstance(x, int): bool is a subclass of int
IsInt(x) == x.kind \in {"int", "bool"}

\* isinstance(x, (int, float))
IsIntOrFloat(x) == x.kind \in {"int", "bool", "float"}

\* x < y, x > y, x >= y on Python numbers: false as soon as one side is NaN
Lt(x, y) == ~x.nan /\ ~y.nan /\ x.v < y.v

Gt(x, y) == ~x.nan /\ ~y.nan /\ x.v > y.v

Ge(x, y) == ~x.nan /\ ~y.nan /\ x.v >= y.v

Le(x, y) == ~x.nan /\ ~y.nan /\ x.v <= y.v

\* int(x): truncation toward zero; int(NaN) raises ValueError
Trunc(k) == IF k >= 0 THEN k \div Scale ELSE -((-k) \div Scale)

-----------------------------------------------------------------------------
(* preprocess.py: constants *)

FIELD_RANGES ==
    [age         |-> [min |-> PyInt(1),  max |-> PyInt(120), minText |-> "1",    maxText |-> "120"],
     bmi         |-> [min |-> PyFloat(10 * Scale), max |-> PyFloat(70 * Scale),
                      minText |-> "10.0", maxText |-> "70.0"],
     cholesterol |-> [min |-> PyInt(50), max |-> PyInt(600), minText |-> "50",   maxText |-> "600"],
     systolic    |-> [min |-> PyInt(60), max |-> PyInt(300), minText |-> "60",   maxText |-> "300"],
     diastolic   |-> [min |-> PyInt(30), max |-> PyInt(200), minText |-> "30",   maxText |-> "200"]]

REQUIRED_FIELDS == <<"age", "bmi", "cholesterol", "systolic", "diastolic">>

FieldNames == {REQUIRED_FIELDS[i] : i \in 1..Len(REQUIRED_FIELDS)}

-----------------------------------------------------------------------------
(* Optional[str]: None, or a string given as the fragments of its f-string *)

None == [isNone |-> TRUE, text |-> <<>>]

Some(fragments) == [isNone |-> FALSE, text |-> fragments]

MissingMsg(field) == Some(<<"Missing required field: ", field>>)

NumberMsg(field) == Some(<<"Invalid value for '", field, "': must be a number">>)

WholeMsg == Some(<<"Invalid value for 'age': must be a whole number">>)

RangeMsg(field) ==
    Some(<<"Invalid value for '", field, "': must be between ",
           FIELD_RANGES[field].minText, " and ", FIELD_RANGES[field].maxText>>)

CrossMsg == Some(<<"diastolic must be less than systolic">>)

-----------------------------------------------------------------------------
(* preprocess.py: validate_inputs *)

\* The first loop's test of one field (lines 58-61).
FieldMissing(d, field) == field \notin DOMAIN d \/ d[field].kind = "None"

\* The second loop's test of one field (line 65).
FieldNotNumber(d, field) == IsBool(d[field]) \/ ~IsIntOrFloat(d[field])

\* The third loop's age test (line 74).
FieldNotWhole(d, field) == field = "age" /\ ~IsInt(d[field])

\* The third loop's range test (line 77).
FieldOutOfRange(d, field) ==
    Lt(d[field], FIELD_RANGES[field].min) \/ Gt(d[field], FIELD_RANGES[field].max)

\* Where a for loop over REQUIRED_FIELDS returns: the first of the indices
\* at which its test holds, 0 when it holds at none.
FirstField(hits) ==
    IF hits = {} THEN 0 ELSE CHOOSE i \in hits : \A j \in hits : i <= j

FieldIndices == 1..Len(REQUIRED_FIELDS)

\* validate_inputs with one loop that runs every per-field check on a field
\* before it moves to the next field.
validate_inputs_perField(d) ==
    LET Bad(f) == \/ FieldMissing(d, f)
                  \/ FieldNotNumber(d, f)
                  \/ FieldNotWhole(d, f)
                  \/ FieldOutOfRange(d, f)
        b == FirstField({i \in FieldIndices : Bad(REQUIRED_FIELDS[i])})
    IN  IF b # 0
        THEN LET f == REQUIRED_FIELDS[b]
             IN  IF FieldMissing(d, f) THEN <<FALSE, MissingMsg(f)>>
                 ELSE IF FieldNotNumber(d, f) THEN <<FALSE, NumberMsg(f)>>
                 ELSE IF FieldNotWhole(d, f) THEN <<FALSE, WholeMsg>>
                 ELSE <<FALSE, RangeMsg(f)>>
        ELSE IF Ge(d["diastolic"], d["systolic"])
             THEN <<FALSE, CrossMsg>>
             ELSE <<TRUE, None>>

validate_inputs(d) ==
    LET RangeLoop(f) == FieldNotWhole(d, f) \/ FieldOutOfRange(d, f)
        m == FirstField({i \in FieldIndices : FieldMissing(d, REQUIRED_FIELDS[i])})
    IN  IF m # 0 THEN <<FALSE, MissingMsg(REQUIRED_FIELDS[m])>>
        ELSE LET n == FirstField({i \in FieldIndices : FieldNotNumber(d, REQUIRED_FIELDS[i])})
             IN  IF n # 0 THEN <<FALSE, NumberMsg(REQUIRED_FIELDS[n])>>
                 ELSE LET r == FirstField({i \in FieldIndices : RangeLoop(REQUIRED_FIELDS[i])})
                      IN  IF r # 0
                          THEN IF FieldNotWhole(d, REQUIRED_FIELDS[r])
                               THEN <<FALSE, WholeMsg>>
                               ELSE <<FALSE, RangeMsg(REQUIRED_FIELDS[r])>>
                          ELSE IF Ge(d["diastolic"], d["systolic"])
                               THEN <<FALSE, CrossMsg>>
                               ELSE <<TRUE, None>>

-----------------------------------------------------------------------------
(* preprocess.py: classify_bp *)

BpRecord(category, stage, color) ==
    [category |-> category, stage |-> stage, color |-> color]

\* classify_bp whose crisis rule takes 180 / 120 themselves as crisis.
classify_bp_crisisInclusive(systolic, diastolic) ==
    IF Ge(systolic, PyInt(180)) \/ Ge(diastolic, PyInt(120))
    THEN BpRecord("Hypertensive Crisis", "crisis", "darkred")
    ELSE IF Ge(systolic, PyInt(140)) \/ Ge(diastolic, PyInt(90))
    THEN BpRecord("High BP - Stage 2", "stage2", "red")
    ELSE IF \/ Ge(systolic, PyInt(130)) /\ Le(systolic, PyInt(139))
            \/ Ge(diastolic, PyInt(80)) /\ Le(diastolic, PyInt(89))
    THEN BpRecord("High BP - Stage 1", "stage1", "orange")
    ELSE IF Ge(systolic, PyInt(120)) /\ Le(systolic, PyInt(129)) /\ Lt(diastolic, PyInt(80))
    THEN BpRecord("Elevated", "elevated", "yellow")
    ELSE IF Lt(systolic, PyInt(120)) /\ Lt(diastolic, PyInt(80))
    THEN BpRecord("Normal", "normal", "green")
    ELSE BpRecord("Unknown", "unknown", "gray")

\* classify_bp whose Stage 1 rule asks for both pressures in the Stage 1 band.
classify_bp_stage1Both(systolic, diastolic) ==
    IF Gt(systolic, PyInt(180)) \/ Gt(diastolic, PyInt(120))
    THEN BpRecord("Hypertensive Crisis", "crisis", "darkred")
    ELSE IF Ge(systolic, PyInt(140)) \/ Ge(diastolic, PyInt(90))
    THEN BpRecord("High BP - Stage 2", "stage2", "red")
    ELSE IF /\ Ge(systolic, PyInt(130)) /\ Le(systolic, PyInt(139))
            /\ Ge(diastolic, PyInt(80)) /\ Le(diastolic, PyInt(89))
    THEN BpRecord("High BP - Stage 1", "stage1", "orange")
    ELSE IF Ge(systolic, PyInt(120)) /\ Le(systolic, PyInt(129)) /\ Lt(diastolic, PyInt(80))
    THEN BpRecord("Elevated", "elevated", "yellow")
    ELSE IF Lt(systolic, PyInt(120)) /\ Lt(diastolic, PyInt(80))
    THEN BpRecord("Normal", "normal", "green")
    ELSE BpRecord("Unknown", "unknown", "gray")

\* classify_bp whose crisis rule starts above 160 / 100.
classify_bp_crisisAbove160(systolic, diastolic) ==
    IF Gt(systolic, PyInt(160)) \/ Gt(diastolic, PyInt(100))
    THEN BpRecord("Hypertensive Crisis", "crisis", "darkred")
    ELSE IF Ge(systolic, PyInt(140)) \/ Ge(diastolic, PyInt(90))
    THEN BpRecord("High BP - Stage 2", "stage2", "red")
    ELSE IF \/ Ge(systolic, PyInt(130)) /\ Le(systolic, PyInt(139))
            \/ Ge(diastolic, PyInt(80)) /\ Le(diastolic, PyInt(89))
    THEN BpRecord("High BP - Stage 1", "stage1", "orange")
    ELSE IF Ge(systolic, PyInt(120)) /\ Le(systolic, PyInt(129)) /\ Lt(diastolic, PyInt(80))
    THEN BpRecord("Elevated", "elevated", "yellow")
    ELSE IF Lt(systolic, PyInt(120)) /\ Lt(diastolic, PyInt(80))
    THEN BpRecord("Normal", "normal", "green")
    ELSE BpRecord("Unknown", "unknown", "gray")

classify_bp(systolic, diastolic) ==
    IF Gt(systolic, PyInt(180)) \/ Gt(diastolic, PyInt(120))
    THEN BpRecord("Hypertensive Crisis", "crisis", "darkred")
    ELSE IF Ge(systolic, PyInt(140)) \/ Ge(diastolic, PyInt(90))
    THEN BpRecord("High BP - Stage 2", "stage2", "red")
    ELSE IF \/ Ge(systolic, PyInt(130)) /\ Le(systolic, PyInt(139))
            \/ Ge(diastolic, PyInt(80)) /\ Le(diastolic, PyInt(89))
    THEN BpRecord("High BP - Stage 1", "stage1", "orange")
    ELSE IF Ge(systolic, PyInt(120)) /\ Le(systolic, PyInt(129)) /\ Lt(diastolic, PyInt(80))
    THEN BpRecord("Elevated", "elevated", "yellow")
    ELSE IF Lt(systolic, PyInt(120)) /\ Lt(diastolic, PyInt(80))
    THEN BpRecord("Normal", "normal", "green")
    ELSE BpRecord("Unknown", "unknown", "gray")

-----------------------------------------------------------------------------
(* preprocess.py: identify_risk_factors *)

\* identify_risk_factors with the age block placed before the pressure blocks.
identify_risk_factors_ageFirst(age, bmi, cholesterol, systolic, diastolic) ==
    LET ageFactor ==
            IF Ge(age, PyInt(70)) THEN <<"Advanced age (>=70 yrs)">>
            ELSE IF Ge(age, PyInt(60)) THEN <<"Senior age (>=60 yrs)">>
            ELSE IF Ge(age, PyInt(45)) THEN <<"Middle age (>=45 yrs)">>
            ELSE <<>>
        systolicFactor ==
            IF Ge(systolic, PyInt(180)) THEN <<"Hypertensive-crisis-level systolic BP">>
            ELSE IF Ge(systolic, PyInt(140)) THEN <<"Stage 2 systolic hypertension">>
            ELSE IF Ge(systolic, PyInt(130)) THEN <<"Stage 1 systolic hypertension">>
            ELSE IF Ge(systolic, PyInt(120)) THEN <<"Elevated systolic BP">>
            ELSE <<>>
        diastolicFactor ==
            IF Ge(diastolic, PyInt(120)) THEN <<"Hypertensive-crisis-level diastolic BP">>
            ELSE IF Ge(diastolic, PyInt(90)) THEN <<"Stage 2 diastolic hypertension">>
            ELSE IF Ge(diastolic, PyInt(80)) THEN <<"Stage 1 diastolic hypertension">>
            ELSE <<>>
        bmiFactor ==
            IF Ge(bmi, PyInt(35)) THEN <<"Severe obesity (BMI >=35)">>
            ELSE IF Ge(bmi, PyInt(30)) THEN <<"Obesity (BMI >=30)">>
            ELSE IF Ge(bmi, PyInt(25)) THEN <<"Overweight (BMI >=25)">>
            ELSE <<>>
        cholesterolFactor ==
            IF Ge(cholesterol, PyInt(280)) THEN <<"Very high cholesterol (>=280 mg/dL)">>
            ELSE IF Ge(cholesterol, PyInt(240)) THEN <<"High cholesterol (>=240 mg/dL)">>
            ELSE IF Ge(cholesterol, PyInt(200)) THEN <<"Borderline-high cholesterol (>=200 mg/dL)">>
            ELSE <<>>
    IN  ageFactor \o systolicFactor \o diastolicFactor \o bmiFactor \o cholesterolFactor

\* risk_factors starts empty and each block appends at most one string.
identify_risk_factors(age, bmi, cholesterol, systolic, diastolic) ==
    LET systolicFactor ==
            IF Ge(systolic, PyInt(180)) THEN <<"Hypertensive-crisis-level systolic BP">>
            ELSE IF Ge(systolic, PyInt(140)) THEN <<"Stage 2 systolic hypertension">>
            ELSE IF Ge(systolic, PyInt(130)) THEN <<"Stage 1 systolic hypertension">>
            ELSE IF Ge(systolic, PyInt(120)) THEN <<"Elevated systolic BP">>
            ELSE <<>>
        diastolicFactor ==
            IF Ge(diastolic, PyInt(120)) THEN <<"Hypertensive-crisis-level diastolic BP">>
            ELSE IF Ge(diastolic, PyInt(90)) THEN <<"Stage 2 diastolic hypertension">>
            ELSE IF Ge(diastolic, PyInt(80)) THEN <<"Stage 1 diastolic hypertension">>
            ELSE <<>>
        ageFactor ==
            IF Ge(age, PyInt(70)) THEN <<"Advanced age (>=70 yrs)">>
            ELSE IF Ge(age, PyInt(60)) THEN <<"Senior age (>=60 yrs)">>
            ELSE IF Ge(age, PyInt(45)) THEN <<"Middle age (>=45 yrs)">>
            ELSE <<>>
        bmiFactor ==
            IF Ge(bmi, PyInt(35)) THEN <<"Severe obesity (BMI >=35)">>
            ELSE IF Ge(bmi, PyInt(30)) THEN <<"Obesity (BMI >=30)">>
            ELSE IF Ge(bmi, PyInt(25)) THEN <<"Overweight (BMI >=25)">>
            ELSE <<>>
        cholesterolFactor ==
            IF Ge(cholesterol, PyInt(280)) THEN <<"Very high cholesterol (>=280 mg/dL)">>
            ELSE IF Ge(cholesterol, PyInt(240)) THEN <<"High cholesterol (>=240 mg/dL)">>
            ELSE IF Ge(cholesterol, PyInt(200)) THEN <<"Borderline-high cholesterol (>=200 mg/dL)">>
            ELSE <<>>
    IN  systolicFactor \o diastolicFactor \o ageFactor \o bmiFactor \o cholesterolFactor

-----------------------------------------------------------------------------
(* preprocess.py: calculate_risk_score *)

Min(a, b) == IF a <= b THEN a ELSE b

Max(a, b) == IF a >= b THEN a ELSE b

\* The sum of the five blocks, before the clamp (lines 266-308).
RiskSum(age, bmi, cholesterol, systolic, diastolic) ==
    LET systolicRisk ==
            IF Ge(systolic, PyInt(180)) THEN 42
            ELSE IF Ge(systolic, PyInt(140)) THEN 35
            ELSE IF Ge(systolic, PyInt(130)) THEN 22
            ELSE IF Ge(systolic, PyInt(120)) THEN 9
            ELSE 0
        diastolicRisk ==
            IF Ge(diastolic, PyInt(120)) THEN 30
            ELSE IF Ge(diastolic, PyInt(90)) THEN 22
            ELSE IF Ge(diastolic, PyInt(80)) THEN 12
            ELSE 0
        ageRisk ==
            IF Ge(age, PyInt(70)) THEN 14
            ELSE IF Ge(age, PyInt(60)) THEN 10
            ELSE IF Ge(age, PyInt(45)) THEN 6
            ELSE 0
        bmiRisk ==
            IF Ge(bmi, PyInt(35)) THEN 12
            ELSE IF Ge(bmi, PyInt(30)) THEN 8
            ELSE IF Ge(bmi, PyInt(25)) THEN 4
            ELSE 0
        cholesterolRisk ==
            IF Ge(cholesterol, PyInt(280)) THEN 10
            ELSE IF Ge(cholesterol, PyInt(240)) THEN 7
            ELSE IF Ge(cholesterol, PyInt(200)) THEN 3
            ELSE 0
    IN  systolicRisk + diastolicRisk + ageRisk + bmiRisk + cholesterolRisk

\* calculate_risk_score that returns the sum without the clamp.
calculate_risk_score_unclamped(age, bmi, cholesterol, systolic, diastolic) ==
    RiskSum(age, bmi, cholesterol, systolic, diastolic)

\* calculate_risk_score whose BMI ladder starts at 30: overweight adds nothing.
calculate_risk_score_bmiFrom30(age, bmi, cholesterol, systolic, diastolic) ==
    LET overweight == IF Ge(bmi, PyInt(25)) /\ ~Ge(bmi, PyInt(30)) THEN 4 ELSE 0
    IN  Min(100, Max(0, RiskSum(age, bmi, cholesterol, systolic, diastolic) - overweight))

calculate_risk_score(age, bmi, cholesterol, systolic, diastolic) ==
    Min(100, Max(0, RiskSum(age, bmi, cholesterol, systolic, diastolic)))

-----------------------------------------------------------------------------
(* preprocess.py: calculate_confidence, classify_confidence_band.          *)
(* A confidence is a number of tenths of a percent: round(x, 1) keeps one  *)
(* decimal.                                                                *)

\* 10 ** ndigits of round(..., 1)
Tenths == 10

DISPLAY_MIN == 60 * Tenths

DISPLAY_MAX == 90 * Tenths

MAX_DISTANCE == 50

Abs(n) == IF n >= 0 THEN n ELSE -n

\* floor(sqrt(n)) for 0 <= n <= hi * hi
ISqrt(n, hi) == CHOOSE k \in 0..hi : k * k <= n /\ n < (k + 1) * (k + 1)

\* round(sqrt(p / q) * w) for 0 <= p <= q: the integer nearest to the real
\* value, floor(sqrt(p/q) * w + 1/2) = (floor(sqrt(4 * p * w * w / q)) + 1) div 2.
\* For the p, q, w of calculate_confidence the real value is never half-way
\* between two integers and is further from the half-way points than the
\* error of the float evaluation, so round's tie rule does not come into play.
RoundSqrtTimes(p, q, w) == (ISqrt((4 * p * w * w) \div q, 2 * w) + 1) \div 2

\* classify_confidence_band whose Moderate band excludes its two end points.
classify_confidence_band_exclusive(confidence) ==
    IF confidence <= 72 * Tenths THEN "Low"
    ELSE IF confidence < 82 * Tenths THEN "Moderate"
    ELSE "High"

classify_confidence_band(confidence) ==
    IF confidence < 72 * Tenths THEN "Low"
    ELSE IF confidence <= 82 * Tenths THEN "Moderate"
    ELSE "High"

\* calculate_confidence with a linear map of the distance (no square root).
calculate_confidence_linear(probabilities, risk_score) ==
    LET distance == Abs(risk_score - 50)
        clipped == Min(distance, MAX_DISTANCE)
        raw == DISPLAY_MIN + (2 * clipped * (DISPLAY_MAX - DISPLAY_MIN) + MAX_DISTANCE)
                                 \div (2 * MAX_DISTANCE)
        confidence == Max(DISPLAY_MIN, Min(DISPLAY_MAX, raw))
    IN  [confidence |-> confidence,
         confidenceBand |-> classify_confidence_band(confidence)]

\* calculate_confidence that takes the larger class probability (given in
\* tenths) as the confidence.
calculate_confidence_fromProbabilities(probabilities, risk_score) ==
    LET raw == Max(probabilities[1], probabilities[2]) * 10 * Tenths
        confidence == Max(DISPLAY_MIN, Min(DISPLAY_MAX, raw))
    IN  [confidence |-> confidence,
         confidenceBand |-> classify_confidence_band(confidence)]

\* normalised = min(distance / MAX_DISTANCE, 1.0) is the fraction
\* clipped / MAX_DISTANCE; probabilities is not read.
calculate_confidence(probabilities, risk_score) ==
    LET distance == Abs(risk_score - 50)
        clipped == Min(distance, MAX_DISTANCE)
        raw == DISPLAY_MIN
               + RoundSqrtTimes(clipped, MAX_DISTANCE, DISPLAY_MAX - DISPLAY_MIN)
        confidence == Max(DISPLAY_MIN, Min(DISPLAY_MAX, raw))
    IN  [confidence |-> confidence,
         confidenceBand |-> classify_confidence_band(confidence)]

-----------------------------------------------------------------------------
(* Request bodies *)

\* A field left out of the body.
Absent == [kind |-> "absent", nan |-> FALSE, v |-> 0]

\* A non-integral number between n and n+1, low and high in the interval.
JustAbove(n) == PyFloat(n * Scale + 1)

JustBelow(n) == PyFloat(n * Scale - 1)

Half(n) == PyFloat(n * Scale + Scale \div 2)

NonNumbers == {Absent, PyNone, PyTrue, PyStr, NaN}

FieldValues ==
    [age         |-> NonNumbers \cup {PyInt(0), PyInt(1), PyInt(30), PyInt(120), PyInt(121),
                                      PyFloat(30 * Scale), Half(30)},
     bmi         |-> NonNumbers \cup {PyInt(5), PyInt(10), JustBelow(10), Half(22),
                                      PyFloat(70 * Scale), JustAbove(70)},
     cholesterol |-> NonNumbers \cup {PyInt(49), PyInt(50), PyInt(180), PyInt(600), PyInt(601)},
     systolic    |-> NonNumbers \cup {PyInt(59), PyInt(60), PyInt(90), JustBelow(121),
                                      PyInt(300), PyInt(301)},
     diastolic   |-> NonNumbers \cup {PyInt(29), PyInt(30), PyInt(90), JustAbove(120),
                                      PyInt(200), PyInt(201)}]

\* The dict a choice of one value per field stands for.
Body(f) == [k \in {k \in FieldNames : f[k] # Absent} |-> f[k]]

Bodies ==
    {Body(f) : f \in [age : FieldValues.age, bmi : FieldValues.bmi,
                      cholesterol : FieldValues.cholesterol,
                      systolic : FieldValues.systolic,
                      diastolic : FieldValues.diastolic]}

NoRequest == [parse |-> "none"]

NoData == [x \in {} |-> Absent]

NoArgs == [fn |-> "none"]

NoCall == [op |-> "none"]

-----------------------------------------------------------------------------
(* validate_inputs applied to every body *)

InitValidate ==
    /\ model = "None"
    /\ request = NoRequest
    /\ data \in Bodies
    /\ args = NoArgs
    /\ ret = NoCall

ValidateInputs ==
    /\ ret = NoCall
    /\ ret' = [op |-> "validate_inputs",
               valid |-> validate_inputs(data)[1],
               error |-> validate_inputs(data)[2]]
    /\ UNCHANGED <<model, request, data, args>>

NextValidate == ValidateInputs

SpecValidate == InitValidate /\ [][NextValidate]_vars

-----------------------------------------------------------------------------
(* The rule engine applied to one patient, in the order predict calls it:  *)
(* calculate_risk_score, classify_bp, identify_risk_factors.               *)

\* The values from Near below a threshold up to the threshold.
Below(thresholds) == {t - k : t \in thresholds, k \in 0..Near}

EngineGrid ==
    [age         : {PyInt(n) : n \in Below({45, 60, 70})},
     bmi         : {PyFloat(k) : k \in Below({25 * Scale, 30 * Scale, 35 * Scale})},
     cholesterol : {PyInt(n) : n \in Below({200, 240, 280})},
     systolic    : {PyInt(n) : n \in Below({120, 130, 140, 180})},
     diastolic   : {PyInt(n) : n \in Below({80, 90, 120})}]

Patient(age, bmi, cholesterol, systolic, diastolic) ==
    [age |-> PyInt(age), bmi |-> PyFloat(bmi * Scale), cholesterol |-> PyInt(cholesterol),
     systolic |-> PyInt(systolic), diastolic |-> PyInt(diastolic)]

EndToEndPatient == Patient(65, 32, 250, 150, 95)

HealthyPatient == Patient(30, 22, 180, 110, 70)

EngineInputs == EngineGrid \cup {EndToEndPatient, HealthyPatient}

\* Every pair of pressures in the validated ranges and Margin beyond them.
BpInputs ==
    {[HealthyPatient EXCEPT !.systolic = PyInt(s), !.diastolic = PyInt(d)] :
        s \in (60 - Margin)..(300 + Margin), d \in (30 - Margin)..(200 + Margin)}

InitEngine ==
    /\ model = "None"
    /\ request = NoRequest
    /\ data = NoData
    /\ args \in EngineInputs
    /\ ret = NoCall

InitBp ==
    /\ model = "None"
    /\ request = NoRequest
    /\ data = NoData
    /\ args \in BpInputs
    /\ ret = NoCall

CalculateRiskScore ==
    /\ ret = NoCall
    /\ ret' = [op |-> "calculate_risk_score",
               risk_score |-> calculate_risk_score(args.age, args.bmi, args.cholesterol,
                                                   args.systolic, args.diastolic)]
    /\ UNCHANGED <<model, request, data, args>>

ClassifyBp ==
    /\ ret.op = "calculate_risk_score"
    /\ ret' = [op |-> "classify_bp",
               risk_score |-> ret.risk_score,
               bp_info |-> classify_bp(args.systolic, args.diastolic)]
    /\ UNCHANGED <<model, request, data, args>>

IdentifyRiskFactors ==
    /\ ret.op = "classify_bp"
    /\ ret' = [op |-> "identify_risk_factors",
               risk_score |-> ret.risk_score,
               bp_info |-> ret.bp_info,
               risk_factors |-> identify_risk_factors(args.age, args.bmi, args.cholesterol,
                                                      args.systolic, args.diastolic)]
    /\ UNCHANGED <<model, request, data, args>>

NextEngine == CalculateRiskScore \/ ClassifyBp \/ IdentifyRiskFactors

SpecEngine == InitEngine /\ [][NextEngine]_vars

SpecBp == InitBp /\ [][NextEngine]_vars

-----------------------------------------------------------------------------
(* calculate_confidence applied to every risk score *)

\* predict_proba rows of a two-class classifier, in tenths.
Probabilities == {<<0, 10>>, <<10, 0>>, <<5, 5>>}

InitConfidence ==
    /\ model = "None"
    /\ request = NoRequest
    /\ data = NoData
    /\ args \in [probabilities : Probabilities, risk_score : (0 - Over)..(100 + Over)]
    /\ ret = NoCall

CalculateConfidence ==
    /\ ret = NoCall
    /\ ret' = [op |-> "calculate_confidence",
               result |-> calculate_confidence(args.probabilities, args.risk_score)]
    /\ UNCHANGED <<model, request, data, args>>

NextConfidence == CalculateConfidence

SpecConfidence == InitConfidence /\ [][NextConfidence]_vars

-----------------------------------------------------------------------------
(* app.py: the global model and the handlers load_model, health_check and  *)
(* predict.  A response is [op, status, body]; predict also records        *)
(* whether it reached the rule engine and the arguments it passed.         *)

API_VERSION == "1.0.0"

\* int(x)
ToInt(x) == [kind |-> "int", nan |-> FALSE, v |-> Trunc(x.v) * Scale]

\* float(x)
ToFloat(x) == [kind |-> "float", nan |-> x.nan, v |-> x.v]

\* What the classifier loaded from disk may do with a feature row: return a
\* class and a predict_proba row, or raise.
ClassifierOutcomes ==
    [raises : {"none"}, prediction : {0, 1}, probabilities : Probabilities]
        \cup [raises : {"ValueError", "Exception"}, prediction : {0},
              probabilities : {<<5, 5>>}]

\* What load_model may meet: the model file, no file, or a file joblib
\* cannot load.
LoadOutcomes == {"loaded", "FileNotFoundError", "Exception"}

ServerFieldValues ==
    [age         |-> {Absent, PyInt(30), PyInt(65), PyFloat(30 * Scale)},
     bmi         |-> {NaN, Half(22), PyInt(32)},
     cholesterol |-> {NaN, PyStr, PyInt(180), PyInt(250)},
     systolic    |-> {NaN, PyInt(90), PyInt(110), PyInt(121), JustBelow(121),
                      PyInt(150), PyInt(301)},
     diastolic   |-> {NaN, PyInt(70), PyInt(90), PyInt(95), PyInt(120), JustAbove(120)}]

ServerBodies ==
    {Body(f) : f \in [age : ServerFieldValues.age, bmi : ServerFieldValues.bmi,
                      cholesterol : ServerFieldValues.cholesterol,
                      systolic : ServerFieldValues.systolic,
                      diastolic : ServerFieldValues.diastolic]}

\* request.get_json(): raises on an unparseable body, returns None for the
\* JSON null, a number for a JSON number ("scalar"), otherwise the parsed
\* object.
Requests ==
    [parse : {"error", "null", "scalar"}, json : {NoData}]
        \cup [parse : {"ok"}, json : ServerBodies]

Response(op, status, body) ==
    [op |-> op, status |-> status, body |-> body, called |-> FALSE, passed |-> NoArgs]

Init ==
    /\ model = "None"
    /\ request \in Requests
    /\ data = NoData
    /\ args = NoArgs
    /\ ret = NoCall

LoadModel ==
    \E outcome \in LoadOutcomes :
        /\ model' = IF outcome = "loaded" THEN "loaded" ELSE model
        /\ ret' = Response("load_model", 0, [raised |-> outcome])
        /\ UNCHANGED <<request, data, args>>

HealthCheck ==
    LET model_loaded == model # "None"
    IN  /\ ret' = Response("health_check",
                           IF model_loaded THEN 200 ELSE 500,
                           [status |-> IF model_loaded THEN "ok" ELSE "error",
                            model_loaded |-> model_loaded,
                            version |-> API_VERSION])
        /\ UNCHANGED <<model, request, data, args>>

\* The try block of predict (lines 166-221) on a validated body d, with the
\* classifier behaving as c.
PredictValidated(d, c) ==
    IF d["age"].nan \/ d["cholesterol"].nan \/ d["systolic"].nan \/ d["diastolic"].nan
    THEN Response("predict", 400, [error |-> "Invalid data type for field"])
    ELSE IF c.raises = "ValueError"
    THEN Response("predict", 400, [error |-> "Invalid data type for field"])
    ELSE IF c.raises = "Exception"
    THEN Response("predict", 500, [error |-> "Prediction failed"])
    ELSE
        LET age == ToInt(d["age"])
            bmi == ToFloat(d["bmi"])
            cholesterol == ToInt(d["cholesterol"])
            systolic == ToInt(d["systolic"])
            diastolic == ToInt(d["diastolic"])
            risk_score == calculate_risk_score(age, bmi, cholesterol, systolic, diastolic)
            conf_result == calculate_confidence(c.probabilities, risk_score)
            bp_info == classify_bp(systolic, diastolic)
            risk_factors == identify_risk_factors(age, bmi, cholesterol, systolic, diastolic)
        IN  [op |-> "predict",
             status |-> 200,
             body |-> [prediction |-> c.prediction,
                       confidence |-> conf_result.confidence,
                       confidenceBand |-> conf_result.confidenceBand,
                       riskScore |-> risk_score,
                       bpCategory |-> bp_info.category,
                       bpStage |-> bp_info.stage,
                       bpColor |-> bp_info.color,
                       riskFactors |-> risk_factors],
             called |-> TRUE,
             passed |-> [age |-> age, bmi |-> bmi, cholesterol |-> cholesterol,
                         systolic |-> systolic, diastolic |-> diastolic]]

\* A predict that reads the body before it looks at the model.
Predict_parseFirst ==
    \E c \in ClassifierOutcomes :
        /\ ret' =
              IF request.parse = "error"
              THEN Response("predict", 400, [error |-> "Invalid JSON in request body"])
              ELSE IF request.parse = "null"
              THEN Response("predict", 400, [error |-> "Request body must be valid JSON"])
              ELSE IF model = "None"
              THEN Response("predict", 500,
                            [error |-> "Model not loaded. Run train_model.py first."])
              ELSE IF request.parse = "scalar"
              THEN Response("predict", 500, [error |-> "Internal server error"])
              ELSE IF ~validate_inputs(request.json)[1]
              THEN Response("predict", 400, [error |-> validate_inputs(request.json)[2]])
              ELSE PredictValidated(request.json, c)
        /\ UNCHANGED <<model, request, data, args>>

Predict ==
    \E c \in ClassifierOutcomes :
        /\ ret' =
              IF model = "None"
              THEN Response("predict", 500,
                            [error |-> "Model not loaded. Run train_model.py first."])
              ELSE IF request.parse = "error"
              THEN Response("predict", 400, [error |-> "Invalid JSON in request body"])
              ELSE IF request.parse = "null"
              THEN Response("predict", 400, [error |-> "Request body must be valid JSON"])
              ELSE IF request.parse = "scalar"
              THEN \* "age" not in 5 raises TypeError outside the try block
                   Response("predict", 500, [error |-> "Internal server error"])
              ELSE IF ~validate_inputs(request.json)[1]
              THEN Response("predict", 400, [error |-> validate_inputs(request.json)[2]])
              ELSE PredictValidated(request.json, c)
        /\ UNCHANGED <<model, request, data, args>>

Next == LoadModel \/ HealthCheck \/ Predict

Spec == Init /\ [][Next]_vars

\* The two callers of calculate_confidence side by side: predict, which
\* hands it the classifier's predict_proba row, and a direct call with any
\* row and any risk score.
InitCallers == Init \/ InitConfidence

NextCallers ==
    \/ request # NoRequest /\ Next
    \/ args # NoArgs /\ NextConfidence

SpecCallers == InitCallers /\ [][NextCallers]_vars

-----------------------------------------------------------------------------
(* Claims about validate_inputs *)

Validated == ret.op = "validate_inputs"

\* What the specification asks of a field, in the value's own terms.
Present(d, f) == f \in DOMAIN d /\ d[f].kind # "None"

Numeric(d, f) == d[f].kind \in {"int", "float"} /\ ~d[f].nan

Integral(x) == ~x.nan /\ x.v % Scale = 0

WithinRange(d, f) ==
    /\ ~d[f].nan
    /\ FIELD_RANGES[f].min.v <= d[f].v
    /\ d[f].v <= FIELD_RANGES[f].max.v

AllAcceptable(d) ==
    /\ \A f \in FieldNames : Present(d, f)
    /\ \A f \in FieldNames : Numeric(d, f) /\ WithinRange(d, f)
    /\ d["diastolic"].v < d["systolic"].v

\* A body whose only defect is systolic = diastolic = 90.
EqualPressures ==
    [age |-> PyInt(30), bmi |-> Half(22), cholesterol |-> PyInt(180),
     systolic |-> PyInt(90), diastolic |-> PyInt(90)]

\* C6: validate_inputs returns valid = true exactly when it returns error =
\* None, and only when all five fields are present, numeric and not boolean,
\* within their inclusive ranges, with diastolic < systolic strictly; equal
\* pressures (90, 90) get the cross-field message; every rejection carries
\* one non-empty message.
C6_ValidOnlyWhenAllChecksPass ==
    Validated =>
        /\ ret.valid <=> ret.error = None
        /\ ret.valid => AllAcceptable(data)
        /\ data = EqualPressures => ret.error = CrossMsg
        /\ ~ret.valid => ~ret.error.isNone /\ ret.error.text # <<>>

\* A body every check accepts, whose pressures stay in order whichever single
\* in-range pressure replaces one of them.
Baseline ==
    [age |-> PyInt(30), bmi |-> Half(22), cholesterol |-> PyInt(180),
     systolic |-> PyInt(300), diastolic |-> PyInt(30)]

\* The body d with every field but f replaced by its Baseline value.
Isolated(d, f) ==
    [k \in (FieldNames \ {f}) \cup ({f} \cap DOMAIN d) |->
        IF k = f THEN d[k] ELSE Baseline[k]]

\* The validator's verdict on field f of d taken alone.
Verdict(d, f) == validate_inputs(Isolated(d, f))[2]

\* The check category of a message: 1 missing, 2 not a number, 3 whole
\* number, 4 out of range, 5 cross-field, 0 for None.
Category(e) ==
    IF e = None THEN 0
    ELSE IF \E f \in FieldNames : e = MissingMsg(f) THEN 1
    ELSE IF \E f \in FieldNames : e = NumberMsg(f) THEN 2
    ELSE IF e = WholeMsg THEN 3
    ELSE IF \E f \in FieldNames : e = RangeMsg(f) THEN 4
    ELSE 5

\* Indices of the fields whose own verdict is a rejection.
FailingFields(d) ==
    {i \in 1..Len(REQUIRED_FIELDS) : Category(Verdict(d, REQUIRED_FIELDS[i])) # 0}

\* (category, field) order: category first, REQUIRED_FIELDS order within it.
Earlier(d, i, j) ==
    LET ci == Category(Verdict(d, REQUIRED_FIELDS[i]))
        cj == Category(Verdict(d, REQUIRED_FIELDS[j]))
    IN  ci < cj \/ (ci = cj /\ i <= j)

\* C7: the single message returned is that of the earliest failing check in
\* the order missing -> not-a-number -> age whole-number -> out-of-range ->
\* cross-field, fields in the order age, bmi, cholesterol, systolic,
\* diastolic within a category; the cross-field message is returned only when
\* every field passes every per-field check.
C7_EarliestFailingCheckWins ==
    Validated =>
        LET failing == FailingFields(data)
        IN  /\ \A i \in failing : Category(Verdict(data, REQUIRED_FIELDS[i])) \in 1..4
            /\ failing # {} =>
                  \E i \in failing :
                      /\ \A j \in failing : Earlier(data, i, j)
                      /\ ret.error = Verdict(data, REQUIRED_FIELDS[i])
            /\ failing = {} => ret.error \in {None, CrossMsg}
            /\ ret.error = CrossMsg => failing = {}

\* An input that fails an out-of-range check on an early field (age), a
\* not-a-number check on a later one (bmi) and the cross-field check, and is
\* answered with the not-a-number message.
C7_Witness ==
    /\ Validated
    /\ "age" \in DOMAIN data /\ data["age"] = PyInt(121)
    /\ "bmi" \in DOMAIN data /\ data["bmi"] = PyStr
    /\ "systolic" \in DOMAIN data /\ data["systolic"] = PyInt(90)
    /\ "diastolic" \in DOMAIN data /\ data["diastolic"] = PyInt(90)
    /\ ret.error = NumberMsg("bmi")

\* C8: the whole-number message is returned exactly when age is present,
\* numeric, non-boolean and not integral in value (no earlier check failing);
\* an age of integral value is never rejected with it, whatever its numeric
\* representation; no other field gets a whole-number message.
C8_WholeNumberIffAgeNotIntegral ==
    Validated =>
        LET earlierPass == /\ \A f \in FieldNames : Present(data, f)
                           /\ \A f \in FieldNames : ~FieldNotNumber(data, f)
        IN  /\ ret.error = WholeMsg =>
                  /\ Present(data, "age")
                  /\ data["age"].kind \in {"int", "float"}
                  /\ ~Integral(data["age"])
            /\ earlierPass /\ ~Integral(data["age"]) => ret.error = WholeMsg
            /\ Category(ret.error) = 3 => ret.error = WholeMsg

-----------------------------------------------------------------------------
(* Claims about the rule engine *)

Scored == ret.op \in {"calculate_risk_score", "classify_bp", "identify_risk_factors"}

Classified == ret.op \in {"classify_bp", "identify_risk_factors"}

Identified == ret.op = "identify_risk_factors"

\* The ladders of the specification: per dimension, the rungs from the
\* highest threshold down, each with its weight and its risk-factor string.
Ladders ==
    [systolic |->
        <<[at |-> 180, weight |-> 42, factor |-> "Hypertensive-crisis-level systolic BP"],
          [at |-> 140, weight |-> 35, factor |-> "Stage 2 systolic hypertension"],
          [at |-> 130, weight |-> 22, factor |-> "Stage 1 systolic hypertension"],
          [at |-> 120, weight |-> 9,  factor |-> "Elevated systolic BP"]>>,
     diastolic |->
        <<[at |-> 120, weight |-> 30, factor |-> "Hypertensive-crisis-level diastolic BP"],
          [at |-> 90,  weight |-> 22, factor |-> "Stage 2 diastolic hypertension"],
          [at |-> 80,  weight |-> 12, factor |-> "Stage 1 diastolic hypertension"]>>,
     age |->
        <<[at |-> 70, weight |-> 14, factor |-> "Advanced age (>=70 yrs)"],
          [at |-> 60, weight |-> 10, factor |-> "Senior age (>=60 yrs)"],
          [at |-> 45, weight |-> 6,  factor |-> "Middle age (>=45 yrs)"]>>,
     bmi |->
        <<[at |-> 35, weight |-> 12, factor |-> "Severe obesity (BMI >=35)"],
          [at |-> 30, weight |-> 8,  factor |-> "Obesity (BMI >=30)"],
          [at |-> 25, weight |-> 4,  factor |-> "Overweight (BMI >=25)"]>>,
     cholesterol |->
        <<[at |-> 280, weight |-> 10, factor |-> "Very high cholesterol (>=280 mg/dL)"],
          [at |-> 240, weight |-> 7,  factor |-> "High cholesterol (>=240 mg/dL)"],
          [at |-> 200, weight |-> 3,  factor |-> "Borderline-high cholesterol (>=200 mg/dL)"]>>]

\* The index of the first rung of a dimension that the patient's value
\* reaches, 0 when it is below the lowest.
Rung(p, dim) ==
    LET reached == {i \in 1..Len(Ladders[dim]) : p[dim].v >= Ladders[dim][i].at * Scale}
    IN  IF reached = {} THEN 0 ELSE CHOOSE i \in reached : \A j \in reached : i <= j

Weight(p, dim) == IF Rung(p, dim) = 0 THEN 0 ELSE Ladders[dim][Rung(p, dim)].weight

Factor(p, dim) == IF Rung(p, dim) = 0 THEN <<>> ELSE <<Ladders[dim][Rung(p, dim)].factor>>

WeightSum(p) ==
    Weight(p, "systolic") + Weight(p, "diastolic") + Weight(p, "age")
        + Weight(p, "bmi") + Weight(p, "cholesterol")

InValidatedRanges(p) ==
    \A f \in FieldNames :
        FIELD_RANGES[f].min.v <= p[f].v /\ p[f].v <= FIELD_RANGES[f].max.v

\* C1: for every input within the validated ranges calculate_risk_score
\* returns min(100, S), S the sum of the weight of the first matching rung of
\* each dimension; the result lies in 0..100, the sum 108 is returned as 100
\* and the patient {65, 32, 150/95, 250} scores 82.
C1_RiskScoreIsClampedLadderSum ==
    Scored /\ InValidatedRanges(args) =>
        /\ ret.risk_score = (IF WeightSum(args) > 100 THEN 100 ELSE WeightSum(args))
        /\ ret.risk_score \in 0..100
        /\ WeightSum(args) <= 108
        /\ WeightSum(args) = 108 => ret.risk_score = 100
        /\ args = EndToEndPatient => ret.risk_score = 82

\* Every dimension on its top rung: the sum is 108 and the score 100.
C1_Witness ==
    /\ ret.op = "calculate_risk_score"
    /\ InValidatedRanges(args)
    /\ args = Patient(70, 35, 280, 180, 120)
    /\ WeightSum(args) = 108
    /\ ret.risk_score = 100

\* C10: identify_risk_factors returns at most five strings, at most one per
\* dimension, in the order systolic, diastolic, age, bmi, cholesterol, each
\* the string of the highest threshold the value reaches and none below the
\* lowest threshold; the result is empty for the patient {30, 22, 110/70, 180}.
C10_RiskFactorsFollowLadders ==
    Identified =>
        /\ ret.risk_factors = Factor(args, "systolic") \o Factor(args, "diastolic")
                                \o Factor(args, "age") \o Factor(args, "bmi")
                                \o Factor(args, "cholesterol")
        /\ Len(ret.risk_factors) <= 5
        /\ \A dim \in FieldNames :
              Cardinality({i \in 1..Len(ret.risk_factors) :
                              \E r \in 1..Len(Ladders[dim]) :
                                  ret.risk_factors[i] = Ladders[dim][r].factor}) <= 1
        /\ args = HealthyPatient => ret.risk_factors = <<>>

\* A patient with a factor in every dimension, on different rungs.
C10_Witness ==
    /\ Identified
    /\ args = Patient(60, 35, 200, 130, 120)
    /\ ret.risk_factors = <<"Stage 1 systolic hypertension",
                            "Hypertensive-crisis-level diastolic BP",
                            "Senior age (>=60 yrs)",
                            "Severe obesity (BMI >=35)",
                            "Borderline-high cholesterol (>=200 mg/dL)">>

-----------------------------------------------------------------------------
(* Claims about classify_bp *)

\* The six rules of the specification, on whole numbers of mmHg.
RuleMatches(i, s, d) ==
    CASE i = 1 -> s > 180 \/ d > 120
      [] i = 2 -> s >= 140 \/ d >= 90
      [] i = 3 -> s \in 130..139 \/ d \in 80..89
      [] i = 4 -> s \in 120..129 /\ d < 80
      [] i = 5 -> s < 120 /\ d < 80
      [] i = 6 -> TRUE

RuleResult ==
    <<BpRecord("Hypertensive Crisis", "crisis", "darkred"),
      BpRecord("High BP - Stage 2", "stage2", "red"),
      BpRecord("High BP - Stage 1", "stage1", "orange"),
      BpRecord("Elevated", "elevated", "yellow"),
      BpRecord("Normal", "normal", "green"),
      BpRecord("Unknown", "unknown", "gray")>>

FirstRule(s, d) == CHOOSE i \in 1..6 : RuleMatches(i, s, d) /\ \A j \in 1..(i - 1) : ~RuleMatches(j, s, d)

Systolic == args.systolic.v \div Scale

Diastolic == args.diastolic.v \div Scale

\* C4: for every pair of integers classify_bp returns the triple of the first
\* rule that matches, in the order crisis, stage2, stage1, elevated, normal,
\* unknown; (180,80) is stage2 and (181,80) crisis; (139,70) is stage1 and
\* (140,70) stage2; category, stage and color are the triple of one rule.
C4_FirstMatchingRuleWins ==
    Classified =>
        /\ ret.bp_info = RuleResult[FirstRule(Systolic, Diastolic)]
        /\ \E i \in 1..6 : ret.bp_info = RuleResult[i]
        /\ Systolic = 180 /\ Diastolic = 80 => ret.bp_info.stage = "stage2"
        /\ Systolic = 181 /\ Diastolic = 80 => ret.bp_info.stage = "crisis"
        /\ Systolic = 139 /\ Diastolic = 70 => ret.bp_info.stage = "stage1"
        /\ Systolic = 140 /\ Diastolic = 70 => ret.bp_info.stage = "stage2"

\* The strict crisis bound at work: (180, 80) classified as Stage 2.
C4_Witness ==
    /\ ret.op = "classify_bp"
    /\ Systolic = 180 /\ Diastolic = 80
    /\ ret.bp_info = BpRecord("High BP - Stage 2", "stage2", "red")

InGap == Systolic \in 120..129 /\ Diastolic \in 80..89

\* C5 as stated: for systolic in [120,129] together with diastolic in [80,89],
\* in particular (125, 85), classify_bp falls through to Unknown / unknown /
\* gray.
C5_GapFallsThroughToUnknown ==
    Classified /\ InGap => ret.bp_info = BpRecord("Unknown", "unknown", "gray")

\* C5 as amended: for systolic in [120,129] together with diastolic in
\* [80,89], in particular (125, 85), classify_bp returns High BP - Stage 1 /
\* stage1 / orange, and it returns Unknown for no pair of integers.
C5_GapIsStage1 ==
    Classified =>
        /\ InGap => ret.bp_info = BpRecord("High BP - Stage 1", "stage1", "orange")
        /\ ret.bp_info.stage # "unknown"

C5_Witness ==
    /\ ret.op = "classify_bp"
    /\ Systolic = 125 /\ Diastolic = 85
    /\ ret.bp_info.stage = "stage1"

-----------------------------------------------------------------------------
(* Claims about calculate_confidence *)

Estimated == ret.op = "calculate_confidence"

InScoreRange == args.risk_score \in 0..100

\* n is the integer nearest to w * sqrt(p / q): |n - w * sqrt(p/q)| <= 1/2,
\* squared, for n >= 0.
NearestToSqrtTimes(n, p, q, w) ==
    /\ n >= 0
    /\ (n = 0 \/ (2 * n - 1) * (2 * n - 1) * q <= 4 * w * w * p)
    /\ 4 * w * w * p <= (2 * n + 1) * (2 * n + 1) * q

\* C2: for every integer riskScore in 0..100 the confidence is
\* round(60 + 30 * sqrt(|riskScore - 50| / 50), 1) and lies in [60.0, 90.0];
\* riskScore 50 gives 60.0 / Low, riskScore 0 and 100 give 90.0 / High.
C2_ConfidenceIsSqrtCurve ==
    Estimated /\ InScoreRange =>
        /\ NearestToSqrtTimes(ret.result.confidence - 60 * Tenths,
                              Abs(args.risk_score - 50), 50, 30 * Tenths)
        /\ ret.result.confidence >= 60 * Tenths
        /\ ret.result.confidence <= 90 * Tenths
        /\ args.risk_score = 50 =>
              ret.result = [confidence |-> 60 * Tenths, confidenceBand |-> "Low"]
        /\ args.risk_score \in {0, 100} =>
              ret.result = [confidence |-> 90 * Tenths, confidenceBand |-> "High"]

\* riskScore 82, the end-to-end example: 60 + 30 * sqrt(32/50) = 84.0 / High.
C2_Witness ==
    /\ Estimated
    /\ args.risk_score = 82
    /\ ret.result = [confidence |-> 84 * Tenths, confidenceBand |-> "High"]

\* C3: for every riskScore in 0..100 the band is Low exactly when the
\* confidence is < 72.0, Moderate exactly when 72.0 <= confidence <= 82.0,
\* High exactly when confidence > 82.0; 72.0 and 82.0 themselves are Moderate.
C3_BandMatchesCutoffs ==
    Estimated /\ InScoreRange =>
        LET c == ret.result.confidence
            band == ret.result.confidenceBand
        IN  /\ band = "Low" <=> c < 72 * Tenths
            /\ band = "Moderate" <=> (72 * Tenths <= c /\ c <= 82 * Tenths)
            /\ band = "High" <=> c > 82 * Tenths
            /\ c = 72 * Tenths => band = "Moderate"
            /\ c = 82 * Tenths => band = "Moderate"

\* A risk score whose confidence is exactly 72.0, in the Moderate band.
C3_Witness ==
    /\ Estimated
    /\ InScoreRange
    /\ ret.result.confidence = 72 * Tenths
    /\ ret.result.confidenceBand = "Moderate"

-----------------------------------------------------------------------------
(* Claims about predict *)

\* C9: once validated, diastolic < systolic: the systolic and diastolic that
\* predict extracts from an accepted body and passes to calculate_risk_score,
\* classify_bp and identify_risk_factors satisfy diastolic < systolic, also
\* when the accepted values are non-integers converted with int().
C9_PassedDiastolicBelowSystolic ==
    ret.op = "predict" /\ ret.called =>
        ret.passed.diastolic.v < ret.passed.systolic.v

\* What predict answers to the same request when the classifier returns
\* class k and the predict_proba row p.
AnswerWith(k, p) ==
    PredictValidated(request.json, [raises |-> "none", prediction |-> k, probabilities |-> p])

\* C11: the confidence result does not depend on the classifier
\* probabilities: calculate_confidence returns the same confidence and band
\* for any two probability arguments and the same riskScore, and the
\* confidence and band predict returns are those it returns for the same
\* five inputs whatever the classifier's predict / predict_proba outputs.
C11_ConfidenceIgnoresProbabilities ==
    /\ Estimated =>
          \A p \in Probabilities :
              calculate_confidence(p, args.risk_score) = ret.result
    /\ ret.op = "predict" /\ ret.called =>
          \A k \in {0, 1}, p \in Probabilities :
              /\ AnswerWith(k, p).body.confidence = ret.body.confidence
              /\ AnswerWith(k, p).body.confidenceBand = ret.body.confidenceBand
              /\ [confidence |-> ret.body.confidence,
                  confidenceBand |-> ret.body.confidenceBand]
                     = calculate_confidence(p, ret.body.riskScore)

\* predict answering 200 to the end-to-end request with class 1.
C11_Witness ==
    /\ ret.op = "predict"
    /\ ret.called
    /\ ret.passed = [EndToEndPatient EXCEPT !.bmi = PyFloat(32 * Scale)]
    /\ ret.body.prediction = 1
    /\ ret.body.riskScore = 82
    /\ ret.body.confidence = 84 * Tenths

\* The validator accepts the request's body.
Accepted == request.parse = "ok" /\ validate_inputs(request.json)[1]

\* C12: predict keeps validation failures and internal failures apart: a 400
\* is produced only when the body is missing / unparseable or validate_inputs
\* rejects it, and then carries the validator's single message; every
\* exception raised after validation has succeeded (value extraction, feature
\* building, model prediction, scoring) is answered with a 500.
C12_Only500AfterValidation ==
    ret.op = "predict" /\ model # "None" =>
        /\ ret.status = 400 =>
              \/ request.parse \in {"error", "null"}
              \/ /\ request.parse = "ok"
                 /\ ~validate_inputs(request.json)[1]
                 /\ ret.body.error = validate_inputs(request.json)[2]
        /\ Accepted => ret.status \in {200, 500}

-----------------------------------------------------------------------------
(* Claims about the life of the global model *)

\* What health_check and predict answer in a state, given the model.
AnswersFollowModel ==
    /\ ret.op = "health_check" =>
          /\ (model # "None") <=> (ret.status = 200 /\ ret.body.status = "ok")
          /\ (model = "None") <=> (ret.status = 500 /\ ret.body.status = "error")
          /\ ret.body.model_loaded = (model # "None")
    /\ ret.op = "predict" /\ model = "None" =>
          /\ ret.status = 500
          /\ ret.body = [error |-> "Model not loaded. Run train_model.py first."]
          /\ ~ret.called
    /\ ret.op = "predict" /\ ret.status \in {200, 400} => model = "loaded"

\* A step that changes the model is a successful load_model from unloaded; a
\* load_model that raises and the request handlers leave it as it was.
OnlyLoadChangesModel ==
    /\ model' # model =>
          /\ model = "None"
          /\ model' = "loaded"
          /\ ret'.op = "load_model"
          /\ ret'.body.raised = "loaded"
    /\ ret'.op \in {"health_check", "predict"} => model' = model
    /\ ret'.op = "load_model" /\ ret'.body.raised # "loaded" => model' = model

\* C13: across any sequence of load_model, health_check and predict calls the
\* model starts unloaded and is changed only by a successful load_model;
\* health_check answers 200 "ok" exactly when the model is loaded and 500
\* "error" otherwise; predict answers 500 "Model not loaded" for every request
\* body while the model is unloaded, so no 200 or 400 comes before a load.
C13_ModelLoadedOnlyByLoadModel ==
    /\ model = "None"
    /\ []AnswersFollowModel
    /\ [][OnlyLoadChangesModel]_vars

C13_Witness ==
    /\ model = "None"
    /\ ret.op = "predict"
    /\ ret.status = 500
    /\ request.parse = "error"

-----------------------------------------------------------------------------
(* Claims about the risk score and the risk factors together *)

ScoreOf(p) == calculate_risk_score(p.age, p.bmi, p.cholesterol, p.systolic, p.diastolic)

FactorsOf(p) == identify_risk_factors(p.age, p.bmi, p.cholesterol, p.systolic, p.diastolic)

\* The patient p seen through one dimension: the other four take the values
\* of the healthy patient, which reach no threshold.
DimOnly(p, dim) == [HealthyPatient EXCEPT ![dim] = p[dim]]

Weighted(p) == {dim \in FieldNames : ScoreOf(DimOnly(p, dim)) # 0}

Named(p) == {dim \in FieldNames : FactorsOf(DimOnly(p, dim)) # <<>>}

\* C14: for every input each of the five dimensions contributes a non-zero
\* weight to calculate_risk_score exactly when it contributes a string to
\* identify_risk_factors; the score is 0 if and only if the list is empty, and
\* the number of risk factors is the number of dimensions with non-zero weight.
C14_ScoreAndFactorsShareThresholds ==
    Identified =>
        /\ ScoreOf(HealthyPatient) = 0 /\ FactorsOf(HealthyPatient) = <<>>
        /\ Weighted(args) = Named(args)
        /\ \A dim \in FieldNames :
              /\ ScoreOf(DimOnly(args, dim)) <= ret.risk_score
              /\ dim \in Named(args) =>
                    \E i \in 1..Len(ret.risk_factors) :
                        <<ret.risk_factors[i]>> = FactorsOf(DimOnly(args, dim))
        /\ ret.risk_score = 0 <=> ret.risk_factors = <<>>
        /\ Len(ret.risk_factors) = Cardinality(Weighted(args))

\* Only the BMI reaches a threshold, and only its lowest one.
C14_Witness ==
    /\ Identified
    /\ args = Patient(44, 25, 199, 119, 79)
    /\ Weighted(args) = {"bmi"}
    /\ ret.risk_score = 4
    /\ ret.risk_factors = <<"Overweight (BMI >=25)">>

-----------------------------------------------------------------------------
(* Claims about the pressure category and the pressure risk factors together *)

\* The strings of the list that belong to the ladder of dim.
FactorsFor(factors, dim) ==
    {factors[i] : i \in 1..Len(factors)}
        \cap {Ladders[dim][r].factor : r \in 1..Len(Ladders[dim])}

CrisisFactors ==
    {"Hypertensive-crisis-level systolic BP", "Hypertensive-crisis-level diastolic BP"}

\* C15: for integer pressures, whenever classify_bp returns Hypertensive Crisis
\* the risk factors of the same systolic / diastolic contain a
\* hypertensive-crisis-level systolic or diastolic factor, and classify_bp
\* returns Normal exactly when the risk factors contain no systolic and no
\* diastolic factor.
C15_CategoryAgreesWithPressureFactors ==
    Identified /\ args.systolic.kind = "int" /\ args.diastolic.kind = "int" =>
        /\ ret.bp_info.category = "Hypertensive Crisis" =>
              {ret.risk_factors[i] : i \in 1..Len(ret.risk_factors)} \cap CrisisFactors # {}
        /\ ret.bp_info.category = "Normal" <=>
              /\ FactorsFor(ret.risk_factors, "systolic") = {}
              /\ FactorsFor(ret.risk_factors, "diastolic") = {}

\* The lowest crisis by systolic alone: 181 is above the factor's 180.
C15_Witness ==
    /\ Identified
    /\ Systolic = 181
    /\ Diastolic = 79
    /\ ret.bp_info.category = "Hypertensive Crisis"
    /\ ret.risk_factors = <<"Hypertensive-crisis-level systolic BP">>

====
